---- MODULE Spec2Model ----
(***************************************************************************)
(* Model of the in-memory, revision-ordered object store of                *)
(* pkg/store/inmemory/simple_memory_store.go (MemoryStore).                *)
(*                                                                         *)
(* Callers are goroutines (Procs).  Every access to shared memory made by  *)
(* a handler (key map, revision list, revision counter, watcher list,      *)
(* watcher channel) is one step of the calling goroutine, so that the      *)
(* interleavings the locks of the code allow are the interleavings of the  *)
(* model.                                                                  *)
(***************************************************************************)
EXTENDS Integers, Sequences, FiniteSets, TLC

\* ------------------------------------------------------------------ bounds
\* number of revisions the model lets the callers allocate
MaxMut == 3
\* capacity of a watcher's incoming channel
IncomingCap == 1
\* largest page size a lister asks for
MaxLimit == 2
\* NilSlotMemoryShrinkThrehold: the nil slots shrink leaves alone
NilSlotMemoryShrinkThrehold == 0

\* --------------------------------------------------------------- universe
\* value of _MemoryRev when the store is constructed (abstracts 2<<61 + now)
MemoryRevInit == 2

\* the goroutines that call the store
Procs == {"p1", "p2"}
Watchers == {"w1"}

\* keys are the "/"-split segments of the key string
Keys == {<<"a", "x">>, <<"a", "y">>, <<"b", "x">>}
Prefixes == {<<"a">>, <<"b">>}
\* the keys concurrent callers contend for
HotKeys == {<<"a", "x">>, <<"b", "x">>}

MatchNotOlderThan == "NotOlderThan"
MatchExact == "Exact"
MatchUnset == ""
Matches == {MatchNotOlderThan, MatchExact, MatchUnset}

\* strings.HasPrefix(key, prefix), prefix ending in "/"
HasPrefix(key, prefix) ==
    /\ Len(prefix) <= Len(key)
    /\ SubSeq(key, 1, Len(prefix)) = prefix

\* a nil *objWithIndex
Nil == [key |-> <<>>, rev |-> 0, index |-> 0 - 1]

\* an object stored without its revision stamped on it
ObjWithIndex_Unstamped(key, rev, index) == [key |-> key, rev |-> 0, index |-> index]

\* &objWithIndex{key, obj (stamped with rev), index}
ObjWithIndex(key, rev, index) == [key |-> key, rev |-> rev, index |-> index]

\* &objEvent{key, rev, isCreated, isDeleted}
ObjEvent(key, rev, kind) == [key |-> key, rev |-> rev, kind |-> kind]


\* ------------------------------------------------------------------ state
VARIABLES
    memoryRev,   \* _MemoryRev
    kvs,         \* ms.kvs: key -> *objWithIndex (Nil when absent)
    kvList,      \* ms.kvList, slot i of the code is kvList[i + 1]
    kvCap,       \* cap(ms.kvList): names the backing array of the slice
    watchers,    \* ms.watchers
    wt,          \* the memoryStoreWatcher objects
    pc,          \* position of each caller inside its handler
    loc,         \* locals of each caller
    assigned,    \* history: revisions in the order atomic.AddUint64 returned them
    events,      \* history: the events sendEvent was called with
    lists,       \* history: the last GetList call and the call whose token it used
    freezeWorld  \* ms.freezeWorld: its writer side, and whether Stop has returned

vars ==
    <<memoryRev, kvs, kvList, kvCap, watchers, wt, pc, loc, assigned, events, lists,
      freezeWorld>>

store == <<memoryRev, kvs, kvList, kvCap>>

NewWatcher ==
    [created |-> FALSE, prefix |-> <<>>, rv |-> 0, at |-> 0, match |-> "",
     stopped |-> FALSE,
     incoming |-> <<>>, replay |-> <<>>, running |-> FALSE, enq |-> <<>>,
     received |-> <<>>]

NewLocals ==
    [op |-> "", key |-> <<>>, cur |-> Nil, rev |-> 0, index |-> 0 - 1,
     hdr |-> 0 - 1, kind |-> "", snap |-> <<>>, keep |-> <<>>, err |-> "",
     pre |-> "", w |-> "", min |-> 0 - 1, ignore |-> FALSE,
     outer |-> "", precond |-> 0, shouldDelete |-> FALSE, count |-> 0]

Init ==
    /\ memoryRev = MemoryRevInit
    /\ kvs = [k \in Keys |-> Nil]
    /\ kvList = <<>>
    /\ kvCap = 0
    /\ watchers = <<>>
    /\ wt = [w \in Watchers |-> NewWatcher]
    /\ pc = [p \in Procs |-> "idle"]
    /\ loc = [p \in Procs |-> NewLocals]
    /\ assigned = <<>>
    /\ events = {}
    /\ lists = <<>>
    /\ freezeWorld = [writer |-> "none", op |-> "", stopped |-> FALSE]

\* ---------------------------------------------------------- freezeWorld
\* the read locks a caller holds on ms.freezeWorld: a handler takes one on entry
\* and gives it back when it returns (defer RUnlock); watch takes none before
\* getObjEventsAfterRev (pc "scan"), and EnsureUpdateAndDelete holds none
\* between its two calls (pc "ensure")
Readers(p) == IF pc[p] \in {"idle", "ensure", "scan"} THEN 0 ELSE 1

\* ms.freezeWorld.RLock() returns: sync.RWMutex lets no reader in while a
\* writer holds the lock or waits for it
RLock == freezeWorld.writer = "none"

\* ------------------------------------------------------- memoryStoreMap
\* kvs.get(keys)
KvsGet(key) == kvs[key]

\* kvs.put(keys, obj, expectedRV): the error it returns, "" for none
KvsPutErr(key, expectedRV) ==
    IF expectedRV = 0
    THEN IF kvs[key] # Nil THEN "Conflict" ELSE ""
    ELSE IF kvs[key] # Nil /\ kvs[key].rev = expectedRV THEN "" ELSE "Conflict"

\* kvs.put(keys, obj, expectedRV): the map it leaves
KvsPut(key, obj, expectedRV) ==
    IF KvsPutErr(key, expectedRV) = "" THEN [kvs EXCEPT ![key] = obj] ELSE kvs

\* kvs.del(keys)
KvsDel(key) == [kvs EXCEPT ![key] = Nil]

\* ---------------------------------------------------------- small steps
\* return err: the handler is left.  A handler that EnsureUpdateAndDelete
\* called returns to it: after a GuaranteedUpdate without error the caller goes
\* on (line 749), the error of a GuaranteedUpdate is passed on (line 746), the
\* error of the Delete is assigned and never read (lines 750-753).
Return(p, err) ==
    IF loc[p].outer = ""
    THEN /\ pc' = [pc EXCEPT ![p] = "idle"]
         /\ loc' = [loc EXCEPT ![p] = [NewLocals EXCEPT !.err = err]]
    ELSE IF loc[p].op = "GuaranteedUpdate" /\ err = ""
    THEN /\ pc' = [pc EXCEPT ![p] = "ensure"]
         /\ loc' = [loc EXCEPT ![p] = [NewLocals EXCEPT !.outer = loc[p].outer,
                                          !.key = loc[p].key,
                                          !.precond = loc[p].precond,
                                          !.shouldDelete = loc[p].shouldDelete]]
    ELSE /\ pc' = [pc EXCEPT ![p] = "idle"]
         /\ loc' = [loc EXCEPT ![p] =
                      [NewLocals EXCEPT !.err = IF loc[p].op = "Delete" THEN "" ELSE err]]

\* a counter bump that adds nothing
AddUint64_Stuck(rev) == rev

\* atomic.AddUint64(&_MemoryRev, 1)
AddUint64(rev) == rev + 1

\* capacity append gives a full slice of capacity c (Go's growslice, small slices)
GrowCap(c) == IF c = 0 THEN 1 ELSE 2 * c

\* revisions the bound still lets callers allocate once every caller that has
\* entered a mutating handler has taken its own
Budget(B) ==
    (MemoryRevInit + B) - memoryRev
        - Cardinality({q \in Procs : pc[q] \in {"reserve", "delRev"}})

\* entry of a handler: the locals it starts with
Enter(p, op, key, kind, cur, next) ==
    /\ pc' = [pc EXCEPT ![p] = next]
    /\ loc' = [loc EXCEPT ![p] = [NewLocals EXCEPT !.op = op, !.key = key,
                                                   !.kind = kind, !.cur = cur]]

\* a handler that returns before it allocates anything
Fail(p, op, key, err) ==
    /\ pc' = [pc EXCEPT ![p] = "idle"]
    /\ loc' = [loc EXCEPT ![p] = [NewLocals EXCEPT !.err = err]]

\* preconditions.Check(key, currObj): nil preconditions (0) or a resource version
PreconditionsCheck(pre, cur) == pre = 0 \/ pre = cur.rev

\* the resource versions a caller may put into its preconditions: none, the
\* newest revision, the one before it
PreSet == {0, memoryRev, memoryRev - 1}

\* the start revisions a watcher or lister may ask for: "0" or one that was assigned
RevSet == {0} \cup (MemoryRevInit + 1 .. memoryRev)

\* a reservation that bumps the revision and appends the slot in two critical
\* sections
reserveRevAndSlot_TwoSections(p, next) ==
    \/ /\ pc[p] = "reserve"
       /\ loc[p].rev = 0
       /\ memoryRev' = AddUint64(memoryRev)
       /\ assigned' = Append(assigned, memoryRev')
       /\ loc' = [loc EXCEPT ![p].rev = memoryRev']
       /\ UNCHANGED <<kvs, kvList, kvCap, watchers, wt, pc, events, lists, freezeWorld>>
    \/ /\ pc[p] = "reserve"
       /\ loc[p].rev # 0
       /\ kvList' = Append(kvList, Nil)
       /\ kvCap' = IF Len(kvList) = kvCap THEN GrowCap(kvCap) ELSE kvCap
       /\ loc' = [loc EXCEPT ![p].index = Len(kvList)]
       /\ pc' = [pc EXCEPT ![p] = next]
       /\ UNCHANGED <<memoryRev, kvs, watchers, wt, assigned, events, lists, freezeWorld>>

\* rev, index := ms.reserveRevAndSlot()
reserveRevAndSlot(p, next) ==
    /\ pc[p] = "reserve"
    /\ memoryRev' = AddUint64(memoryRev)
    /\ assigned' = Append(assigned, memoryRev')
    /\ kvList' = Append(kvList, Nil)
    /\ kvCap' = IF Len(kvList) = kvCap THEN GrowCap(kvCap) ELSE kvCap
    /\ loc' = [loc EXCEPT ![p].rev = memoryRev', ![p].index = Len(kvList)]
    /\ pc' = [pc EXCEPT ![p] = next]
    /\ UNCHANGED <<kvs, watchers, wt, events, lists, freezeWorld>>

\* a put that overwrites whatever the key map holds
Put_Unchecked(p) ==
    /\ pc[p] = "put"
    /\ kvs' = [kvs EXCEPT ![loc[p].key] = ObjWithIndex(loc[p].key, loc[p].rev, loc[p].index)]
    /\ pc' = [pc EXCEPT ![p] = IF loc[p].kind = "Created" THEN "storeLoad" ELSE "clearLoad"]
    /\ UNCHANGED <<memoryRev, kvList, kvCap, watchers, wt, loc, assigned, events, lists, freezeWorld>>

\* err = ms.kvs.put(keys, objWi, 0 | currRv); if err != nil { return err }
Put(p) ==
    /\ pc[p] = "put"
    /\ LET l == loc[p]
           expectedRV == IF l.kind = "Created" THEN 0 ELSE l.cur.rev
           err == KvsPutErr(l.key, expectedRV)
       IN /\ kvs' = KvsPut(l.key, ObjWithIndex(l.key, l.rev, l.index), expectedRV)
          /\ IF err # ""
             THEN Return(p, err)
             ELSE /\ pc' = [pc EXCEPT ![p] = IF l.kind = "Created" THEN "storeLoad"
                                                                  ELSE "clearLoad"]
                  /\ loc' = loc
    /\ UNCHANGED <<memoryRev, kvList, kvCap, watchers, wt, assigned, events, lists, freezeWorld>>

\* ms.kvList[i] = v, first half: the slice header ms.kvList is read
LoadHdr(p, at, next) ==
    /\ pc[p] = at
    /\ loc' = [loc EXCEPT ![p].hdr = kvCap]
    /\ pc' = [pc EXCEPT ![p] = next]
    /\ UNCHANGED <<store, watchers, wt, assigned, events, lists, freezeWorld>>

\* ms.kvList[i] = v, second half: the element of the array read before is
\* written.  The write is made without revmu; when reserveRevAndSlot has moved
\* the slice to a larger array in between, it lands in the abandoned array.
WriteSlot(p, at, index, v, next) ==
    /\ pc[p] = at
    /\ kvList' = IF loc[p].hdr = kvCap THEN [kvList EXCEPT ![index + 1] = v] ELSE kvList
    /\ pc' = [pc EXCEPT ![p] = next]
    /\ UNCHANGED <<memoryRev, kvs, kvCap, watchers, wt, loc, assigned, events, lists, freezeWorld>>

\* ms.kvList[curObjWi.index] = nil
Clear(p, next) == WriteSlot(p, "clear", loc[p].cur.index, Nil, next)

\* ms.kvList[index] = objWi
StoreSlot(p) ==
    WriteSlot(p, "store", loc[p].index,
              ObjWithIndex(loc[p].key, loc[p].rev, loc[p].index), "send")

\* a broadcast of the event with the revision of the object that was replaced
SendBegin_OldRevision(p) ==
    /\ pc[p] = "send"
    /\ events' = events \cup {ObjEvent(loc[p].key, loc[p].cur.rev, loc[p].kind)}
    /\ loc' = [loc EXCEPT ![p].snap = watchers, ![p].keep = <<>>]
    /\ pc' = [pc EXCEPT ![p] = "sendLoop"]
    /\ UNCHANGED <<store, watchers, wt, assigned, lists, freezeWorld>>

\* sendEvent, entry: `range ms.watchers` reads the slice once
SendBegin(p) ==
    /\ pc[p] = "send"
    /\ events' = events \cup {ObjEvent(loc[p].key, loc[p].rev, loc[p].kind)}
    /\ loc' = [loc EXCEPT ![p].snap = watchers, ![p].keep = <<>>]
    /\ pc' = [pc EXCEPT ![p] = "sendLoop"]
    /\ UNCHANGED <<store, watchers, wt, assigned, lists, freezeWorld>>

\* sendEvent, one iteration of the loop, or the final ms.watchers = watchers.
\* v.incomingChan <- event is a blocking channel send.
SendLoop(p) ==
    /\ pc[p] = "sendLoop"
    /\ IF loc[p].snap = <<>>
       THEN /\ watchers' = loc[p].keep
            /\ Return(p, "")
            /\ wt' = wt
       ELSE LET v == Head(loc[p].snap)
                e == ObjEvent(loc[p].key, loc[p].rev, loc[p].kind)
            IN /\ IF wt[v].stopped
                  THEN /\ wt' = wt
                       /\ loc' = [loc EXCEPT ![p].snap = Tail(@)]
                  ELSE /\ Len(wt[v].incoming) < IncomingCap
                       /\ wt' = [wt EXCEPT ![v].incoming = Append(@, e),
                                           ![v].enq = Append(@, e.rev)]
                       /\ loc' = [loc EXCEPT ![p].snap = Tail(@),
                                             ![p].keep = Append(@, v)]
               /\ pc' = pc
               /\ watchers' = watchers
    /\ UNCHANGED <<store, assigned, events, lists, freezeWorld>>

\* ms.sendEvent(event)
sendEvent(p) == SendBegin(p) \/ SendLoop(p)

\* the create branch shared by Create, CreateOrUpdate, GetOrCreate, CreateOrReplace
\* after the key was found absent: reserve, put(.., 0), fill the slot, broadcast
CreateBranch(p) ==
    \/ reserveRevAndSlot(p, "put")
    \/ Put(p)
    \/ LoadHdr(p, "storeLoad", "store")
    \/ StoreSlot(p)
    \/ sendEvent(p)

\* the update branch shared by GuaranteedUpdate, CreateOrUpdate, CreateOrReplace
UpdateBranch(p) ==
    \/ LoadHdr(p, "clearLoad", "clear")
    \/ Clear(p, "storeLoad")

\* ------------------------------------------------------------- handlers
\* a Create that does not look the key up
CreateBegin_NoLookup(p, K, B) ==
    /\ pc[p] = "idle"
    /\ RLock
    /\ \E k \in K : Budget(B) > 0 /\ Enter(p, "Create", k, "Created", Nil, "reserve")
    /\ UNCHANGED <<store, watchers, wt, assigned, events, lists, freezeWorld>>

\* Create: the key is looked up; an existing key is KeyExists
CreateBegin(p, K, B) ==
    /\ pc[p] = "idle"
    /\ RLock
    /\ \E k \in K :
          IF KvsGet(k) # Nil
          THEN Fail(p, "Create", k, "KeyExists")
          ELSE Budget(B) > 0 /\ Enter(p, "Create", k, "Created", Nil, "reserve")
    /\ UNCHANGED <<store, watchers, wt, assigned, events, lists, freezeWorld>>

Create(p, K, B) ==
    \/ CreateBegin(p, K, B)
    \/ loc[p].op = "Create" /\ CreateBranch(p)

\* Delete: the key is looked up; an absent key is KeyNotFound
DeleteBegin(p, K, B) ==
    /\ pc[p] = "idle"
    /\ RLock
    /\ \E k \in K, pre \in PreSet, valid \in BOOLEAN :
          IF KvsGet(k) = Nil
          THEN Fail(p, "Delete", k, "KeyNotFound")
          ELSE /\ Budget(B) > 0
               /\ pc' = [pc EXCEPT ![p] = "delRev"]
               /\ loc' = [loc EXCEPT ![p] = [NewLocals EXCEPT !.op = "Delete", !.key = k,
                                               !.kind = "Deleted", !.cur = KvsGet(k),
                                               !.pre = IF ~PreconditionsCheck(pre, KvsGet(k))
                                                       THEN "PreconditionFailed"
                                                       ELSE IF ~valid THEN "Invalid"
                                                       ELSE ""]]
    /\ UNCHANGED <<store, watchers, wt, assigned, events, lists, freezeWorld>>

\* a Delete that bumps the revision before it checks
DeleteRev_BumpFirst(p) ==
    /\ pc[p] = "delRev"
    /\ memoryRev' = AddUint64(memoryRev)
    /\ assigned' = Append(assigned, memoryRev')
    /\ IF loc[p].pre # ""
       THEN Return(p, loc[p].pre)
       ELSE /\ loc' = [loc EXCEPT ![p].rev = memoryRev']
            /\ pc' = [pc EXCEPT ![p] = "del"]
    /\ UNCHANGED <<kvs, kvList, kvCap, watchers, wt, events, lists, freezeWorld>>

\* Delete, the section under revmu: preconditions and validateDeletion are
\* evaluated on the object read at entry (loc.pre holds their verdict), then
\* the revision is bumped
DeleteRev(p) ==
    /\ pc[p] = "delRev"
    /\ IF loc[p].pre # ""
       THEN Return(p, loc[p].pre) /\ UNCHANGED <<memoryRev, assigned, freezeWorld>>
       ELSE /\ memoryRev' = AddUint64(memoryRev)
            /\ assigned' = Append(assigned, memoryRev')
            /\ loc' = [loc EXCEPT ![p].rev = memoryRev']
            /\ pc' = [pc EXCEPT ![p] = "del"]
    /\ UNCHANGED <<kvs, kvList, kvCap, watchers, wt, events, lists, freezeWorld>>

\* err = ms.kvs.del(keys)
DeleteDel(p) ==
    /\ pc[p] = "del"
    /\ kvs' = KvsDel(loc[p].key)
    /\ pc' = [pc EXCEPT ![p] = "clearLoad"]
    /\ UNCHANGED <<memoryRev, kvList, kvCap, watchers, wt, loc, assigned, events, lists, freezeWorld>>

Delete(p, K, B) ==
    \/ DeleteBegin(p, K, B)
    \/ /\ loc[p].op = "Delete"
       /\ \/ DeleteRev(p)
          \/ DeleteDel(p)
          \/ LoadHdr(p, "clearLoad", "clear")
          \/ Clear(p, "send")
          \/ sendEvent(p)

\* a GuaranteedUpdate that reserves its revision and slot before it looks the
\* key up
GuaranteedUpdateBegin_ReserveFirst(p, K, B) ==
    /\ pc[p] = "idle"
    /\ RLock
    /\ \E k \in K, ignoreNotFound \in BOOLEAN, pre \in PreSet, updateOk \in BOOLEAN :
          IF KvsGet(k) = Nil \/ ~PreconditionsCheck(pre, KvsGet(k)) \/ ~updateOk
          THEN /\ Budget(B) > 0
               /\ memoryRev' = AddUint64(memoryRev)
               /\ assigned' = Append(assigned, memoryRev')
               /\ kvList' = Append(kvList, Nil)
               /\ kvCap' = IF Len(kvList) = kvCap THEN GrowCap(kvCap) ELSE kvCap
               /\ Fail(p, "GuaranteedUpdate", k,
                       IF KvsGet(k) = Nil
                       THEN IF ignoreNotFound THEN "" ELSE "KeyNotFound"
                       ELSE IF ~PreconditionsCheck(pre, KvsGet(k))
                       THEN "PreconditionFailed" ELSE "UpdateFailed")
               /\ UNCHANGED kvs
          ELSE /\ Budget(B) > 0
               /\ Enter(p, "GuaranteedUpdate", k, "Updated", KvsGet(k), "reserve")
               /\ UNCHANGED <<store, assigned>>
    /\ UNCHANGED <<watchers, wt, events, lists, freezeWorld>>

\* GuaranteedUpdate up to the reservation: lookup, preconditions, tryUpdate
GuaranteedUpdateBegin(p, K, B) ==
    /\ pc[p] = "idle"
    /\ RLock
    /\ \E k \in K, ignoreNotFound \in BOOLEAN, pre \in PreSet, updateOk \in BOOLEAN :
          IF KvsGet(k) = Nil
          THEN Fail(p, "GuaranteedUpdate", k, IF ignoreNotFound THEN "" ELSE "KeyNotFound")
          ELSE IF ~PreconditionsCheck(pre, KvsGet(k))
          THEN Fail(p, "GuaranteedUpdate", k, "PreconditionFailed")
          ELSE IF ~updateOk
          THEN Fail(p, "GuaranteedUpdate", k, "UpdateFailed")
          ELSE Budget(B) > 0 /\ Enter(p, "GuaranteedUpdate", k, "Updated", KvsGet(k), "reserve")
    /\ UNCHANGED <<store, watchers, wt, assigned, events, lists, freezeWorld>>

GuaranteedUpdate(p, K, B) ==
    \/ GuaranteedUpdateBegin(p, K, B)
    \/ /\ loc[p].op = "GuaranteedUpdate"
       /\ \/ reserveRevAndSlot(p, "put")
          \/ Put(p)
          \/ UpdateBranch(p)
          \/ LoadHdr(p, "storeLoad", "store")
          \/ StoreSlot(p)
          \/ sendEvent(p)

\* the merge functions a caller may pass: none, one that merges, one that fails
MergeFuncs == {"nil", "ok", "err"}

\* CreateOrUpdate of key k with merge function mergeFunc, up to the reservation:
\* lookup; the merge function is looked at for a present key only
CreateOrUpdateWith(p, k, mergeFunc, B) ==
    /\ pc[p] = "idle"
    /\ RLock
    /\ IF KvsGet(k) = Nil
       THEN Budget(B) > 0 /\ Enter(p, "CreateOrUpdate", k, "Created", Nil, "reserve")
       ELSE IF mergeFunc = "err"
       THEN Fail(p, "CreateOrUpdate", k, "MergeFailed")
       ELSE IF mergeFunc = "nil"
       THEN Fail(p, "CreateOrUpdate", k, "MergeUnsupported")
       ELSE Budget(B) > 0 /\ Enter(p, "CreateOrUpdate", k, "Updated", KvsGet(k), "reserve")
    /\ UNCHANGED <<store, watchers, wt, assigned, events, lists, freezeWorld>>

CreateOrUpdateBegin(p, K, B) ==
    \E k \in K, mergeFunc \in MergeFuncs : CreateOrUpdateWith(p, k, mergeFunc, B)

CreateOrUpdate(p, K, B) ==
    \/ CreateOrUpdateBegin(p, K, B)
    \/ /\ loc[p].op = "CreateOrUpdate"
       /\ \/ reserveRevAndSlot(p, "put")
          \/ Put(p)
          \/ UpdateBranch(p)
          \/ LoadHdr(p, "storeLoad", "store")
          \/ StoreSlot(p)
          \/ sendEvent(p)

\* a GetOrCreate that creates whether the key is present or not
GetOrCreateBegin_AlwaysCreate(p, K, B) ==
    /\ pc[p] = "idle"
    /\ RLock
    /\ \E k \in K : Budget(B) > 0 /\ Enter(p, "GetOrCreate", k, "Created", Nil, "reserve")
    /\ UNCHANGED <<store, watchers, wt, assigned, events, lists, freezeWorld>>

\* GetOrCreate: a present key is returned as it is (the caller keeps which key
\* it asked for)
GetOrCreateBegin(p, K, B) ==
    /\ pc[p] = "idle"
    /\ RLock
    /\ \E k \in K :
          IF KvsGet(k) = Nil
          THEN Budget(B) > 0 /\ Enter(p, "GetOrCreate", k, "Created", Nil, "reserve")
          ELSE /\ pc' = pc
               /\ loc' = [loc EXCEPT ![p] = [NewLocals EXCEPT !.op = "GetOrCreate",
                                                               !.key = k]]
    /\ UNCHANGED <<store, watchers, wt, assigned, events, lists, freezeWorld>>

GetOrCreate(p, K, B) ==
    \/ GetOrCreateBegin(p, K, B)
    \/ loc[p].op = "GetOrCreate" /\ CreateBranch(p)

\* CreateOrReplace reserves its revision and slot before it looks the key up
CreateOrReplaceBegin(p, K, B) ==
    /\ pc[p] = "idle"
    /\ RLock
    /\ Budget(B) > 0
    /\ \E k \in K :
          /\ memoryRev' = AddUint64(memoryRev)
          /\ assigned' = Append(assigned, memoryRev')
          /\ kvList' = Append(kvList, Nil)
          /\ kvCap' = IF Len(kvList) = kvCap THEN GrowCap(kvCap) ELSE kvCap
          /\ pc' = [pc EXCEPT ![p] = "lookup"]
          /\ loc' = [loc EXCEPT ![p] = [NewLocals EXCEPT !.op = "CreateOrReplace",
                                          !.key = k, !.rev = memoryRev',
                                          !.index = Len(kvList)]]
    /\ UNCHANGED <<kvs, watchers, wt, events, lists, freezeWorld>>

\* a CreateOrReplace that takes every key for absent
CreateOrReplaceLookup_Absent(p) ==
    /\ pc[p] = "lookup"
    /\ loc' = [loc EXCEPT ![p].cur = Nil, ![p].kind = "Created"]
    /\ pc' = [pc EXCEPT ![p] = "put"]
    /\ UNCHANGED <<store, watchers, wt, assigned, events, lists, freezeWorld>>

\* curObjWi := ms.kvs.get(keys) of CreateOrReplace
CreateOrReplaceLookup(p) ==
    /\ pc[p] = "lookup"
    /\ loc' = [loc EXCEPT ![p].cur = KvsGet(loc[p].key),
                          ![p].kind = IF KvsGet(loc[p].key) = Nil THEN "Created"
                                                                  ELSE "Updated"]
    /\ pc' = [pc EXCEPT ![p] = "put"]
    /\ UNCHANGED <<store, watchers, wt, assigned, events, lists, freezeWorld>>

CreateOrReplace(p, K, B) ==
    \/ CreateOrReplaceBegin(p, K, B)
    \/ /\ loc[p].op = "CreateOrReplace"
       /\ \/ CreateOrReplaceLookup(p)
          \/ Put(p)
          \/ UpdateBranch(p)
          \/ LoadHdr(p, "storeLoad", "store")
          \/ StoreSlot(p)
          \/ sendEvent(p)

\* EnsureUpdateAndDelete, the call of GuaranteedUpdate up to its reservation.
\* store.GetTryUpdateFunc(updatedObj) hands back updatedObj; shouldDelete is
\* what store.ShouldDeleteSpec will say of it (deletion timestamp set and no
\* finalizers).  An absent key with ignoreNotFound leaves a zero output, which
\* has no deletion timestamp.
EnsureUpdateAndDeleteBegin(p, K, B) ==
    /\ pc[p] = "idle"
    /\ RLock
    /\ \E k \in K, ignoreNotFound \in BOOLEAN, pre \in PreSet, shouldDelete \in BOOLEAN :
          IF KvsGet(k) = Nil
          THEN Fail(p, "EnsureUpdateAndDelete", k, IF ignoreNotFound THEN "" ELSE "KeyNotFound")
          ELSE IF ~PreconditionsCheck(pre, KvsGet(k))
          THEN Fail(p, "EnsureUpdateAndDelete", k, "PreconditionFailed")
          ELSE /\ Budget(B) > (IF shouldDelete THEN 1 ELSE 0)
               /\ pc' = [pc EXCEPT ![p] = "reserve"]
               /\ loc' = [loc EXCEPT ![p] =
                            [NewLocals EXCEPT !.op = "GuaranteedUpdate", !.key = k,
                                              !.kind = "Updated", !.cur = KvsGet(k),
                                              !.outer = "EnsureUpdateAndDelete",
                                              !.precond = pre,
                                              !.shouldDelete = shouldDelete]]
    /\ UNCHANGED <<store, watchers, wt, assigned, events, lists, freezeWorld>>

\* EnsureUpdateAndDelete after the update: if store.ShouldDeleteSpec(output),
\* Delete is called with the same preconditions and a validateDeletion that
\* accepts; the error of Delete's lookup is dropped like any other of its errors
EnsureDelete(p) ==
    /\ pc[p] = "ensure"
    /\ RLock
    /\ IF ~loc[p].shouldDelete \/ KvsGet(loc[p].key) = Nil
       THEN /\ pc' = [pc EXCEPT ![p] = "idle"]
            /\ loc' = [loc EXCEPT ![p] = NewLocals]
       ELSE /\ pc' = [pc EXCEPT ![p] = "delRev"]
            /\ loc' = [loc EXCEPT ![p].op = "Delete", ![p].kind = "Deleted",
                                  ![p].cur = KvsGet(loc[p].key),
                                  ![p].pre = IF PreconditionsCheck(loc[p].precond,
                                                                   KvsGet(loc[p].key))
                                             THEN "" ELSE "PreconditionFailed"]
    /\ UNCHANGED <<store, watchers, wt, assigned, events, lists, freezeWorld>>

EnsureUpdateAndDelete(p, K, B) ==
    \/ EnsureUpdateAndDeleteBegin(p, K, B)
    \/ /\ loc[p].outer = "EnsureUpdateAndDelete"
       /\ \/ /\ loc[p].op = "GuaranteedUpdate"
             /\ \/ reserveRevAndSlot(p, "put")
                \/ Put(p)
                \/ UpdateBranch(p)
                \/ LoadHdr(p, "storeLoad", "store")
                \/ StoreSlot(p)
                \/ sendEvent(p)
          \/ EnsureDelete(p)
          \/ /\ loc[p].op = "Delete"
             /\ \/ DeleteRev(p)
                \/ DeleteDel(p)
                \/ LoadHdr(p, "clearLoad", "clear")
                \/ Clear(p, "send")
                \/ sendEvent(p)

\* every mutating handler
Mutate(p, K, B) ==
    \/ Create(p, K, B)
    \/ Delete(p, K, B)
    \/ GuaranteedUpdate(p, K, B)
    \/ CreateOrUpdate(p, K, B)
    \/ GetOrCreate(p, K, B)
    \/ CreateOrReplace(p, K, B)

\* ------------------------------------------------------- revision list
\* the predicate binarySearchInObjList hands to sort.Search
SearchPred(i, rv) ==
    LET obj == kvList[(i % Len(kvList)) + 1]
    IN IF obj = Nil THEN FALSE ELSE obj.rev >= rv

\* sort.Search(n, f): binary search on [i, j)
RECURSIVE SortSearch(_, _, _)
SortSearch(i, j, rv) ==
    IF i < j
    THEN LET h == (i + j) \div 2
         IN IF ~SearchPred(h, rv) THEN SortSearch(h + 1, j, rv) ELSE SortSearch(i, h, rv)
    ELSE i

\* ms.binarySearchInObjList(rv)
binarySearchInObjList(rv) == SortSearch(0, Len(kvList), rv)

\* the resource-version match rule of list and watch replay
MatchRule(match, rv, withRV) ==
    IF match = MatchNotOlderThan THEN rv >= withRV ELSE rv > withRV

\* the loop of getObjEventsAfterRev from slot i on
RECURSIVE ReplayFrom(_, _, _, _)
ReplayFrom(i, prefix, rev, match) ==
    IF i >= Len(kvList)
    THEN <<>>
    ELSE LET v == kvList[i + 1]
             rest == ReplayFrom(i + 1, prefix, rev, match)
         IN IF v = Nil \/ ~HasPrefix(v.key, prefix)
            THEN rest
            ELSE IF MatchRule(match, v.rev, rev)
            THEN <<ObjEvent(v.key, v.rev, "Created")>> \o rest
            ELSE rest

\* ms.getObjEventsAfterRev(key, rev, opts)
getObjEventsAfterRev(prefix, rev, match) ==
    ReplayFrom(binarySearchInObjList(rev), prefix, rev, match)

\* ------------------------------------------------------------ GetList
\* math.MaxInt64, the limit of a list call that sets none (the largest integer of the model)
MaxInt64 == 2147483647

\* no continue token / no remainingItemCount
NoToken == [start |-> <<>>, rv |-> 0]
NoCount == 0 - 1

\* store.EncodeContinue(key, keyPrefix, rv): the key is kept relative to the prefix
EncodeContinue(key, keyPrefix, rv) ==
    [start |-> SubSeq(key, Len(keyPrefix) + 1, Len(key)), rv |-> rv]

\* store.DecodeContinue(token, keyPrefix): the key under the prefix, and the revision
DecodeContinue(token, keyPrefix) == [key |-> keyPrefix \o token.start, rv |-> token.rv]

\* store.UpdateList(listObj, rv, continueToken, remainingItemCount)
UpdateList(items, rv, token, remaining) ==
    [err |-> "", items |-> items, rv |-> rv, token |-> token, remaining |-> remaining]

\* the loop of GetList over ms.kvList[i .. n-1]; acc holds listRetVal, lastKey, lastRev
RECURSIVE ListLoop(_, _, _, _, _, _, _)
ListLoop(i, n, acc, keyPrefix, match, withRV, limit) ==
    IF i >= n
    THEN acc
    ELSE LET v == kvList[i + 1]
             seen == IF v = Nil THEN acc
                     ELSE [acc EXCEPT !.lastKey = v.key, !.lastRev = v.rev]
         IN IF v # Nil /\ ~HasPrefix(v.key, keyPrefix)
            THEN ListLoop(i + 1, n, seen, keyPrefix, match, withRV, limit)
            ELSE LET got == IF v # Nil /\ MatchRule(match, v.rev, withRV)
                            THEN [seen EXCEPT !.items = Append(@, [key |-> v.key,
                                                                   rev |-> v.rev])]
                            ELSE seen
                 IN IF Len(got.items) = limit
                    THEN IF i < n - 1
                         THEN [got EXCEPT !.hasMore = TRUE, !.remaining = n - 1 - i]
                         ELSE got
                    ELSE ListLoop(i + 1, n, got, keyPrefix, match, withRV, limit)

\* GetList, recursive, from the start position on
ListFrom(searchingIndex, keyPrefix, match, withRV, returnedRV, predLimit) ==
    IF searchingIndex >= Len(kvList)
    THEN UpdateList(<<>>, returnedRV, NoToken, NoCount)
    ELSE LET limit == IF predLimit > 0 THEN predLimit ELSE MaxInt64
             acc == [items |-> <<>>, lastKey |-> <<>>, lastRev |-> withRV,
                     hasMore |-> FALSE, remaining |-> 0]
             r == ListLoop(searchingIndex, Len(kvList), acc, keyPrefix, match, withRV, limit)
         IN IF r.hasMore
            THEN UpdateList(r.items, returnedRV,
                            EncodeContinue(r.lastKey, keyPrefix, r.lastRev), r.remaining)
            ELSE UpdateList(r.items, returnedRV, NoToken, NoCount)

\* no opts.ResourceVersion
NoRV == 0 - 1

\* GetList(ctx, key, opts, listObj) with opts.Recursive and an empty predicate:
\* resourceVersion is NoRV for "", cont is pred.Continue, predLimit is pred.Limit
GetList(keyPrefix, resourceVersion, match, predLimit, cont) ==
    IF cont # NoToken
    THEN IF resourceVersion # NoRV /\ resourceVersion # 0
         THEN [UpdateList(<<>>, 0, NoToken, NoCount) EXCEPT !.err = "BadRequest"]
         ELSE LET c == DecodeContinue(cont, keyPrefix)
                  obj == IF c.key \in DOMAIN kvs THEN KvsGet(c.key) ELSE Nil
                  searchingIndex ==
                      IF obj = Nil THEN 0
                      ELSE IF obj.rev = c.rv THEN obj.index
                      ELSE binarySearchInObjList(c.rv)
              IN IF c.rv = 0
                 THEN [UpdateList(<<>>, 0, NoToken, NoCount) EXCEPT !.err = "BadRequest"]
                 ELSE ListFrom(searchingIndex, keyPrefix, match, c.rv, c.rv, predLimit)
    ELSE IF resourceVersion # NoRV /\ resourceVersion > 0
         THEN ListFrom(binarySearchInObjList(resourceVersion), keyPrefix, match,
                       resourceVersion, resourceVersion, predLimit)
         ELSE ListFrom(0, keyPrefix, match, 0, 1, predLimit)

\* the objects of the key map under a prefix, as (key, rev) pairs
Live(keyPrefix) ==
    {[key |-> k, rev |-> kvs[k].rev] : k \in {x \in Keys : kvs[x] # Nil /\ HasPrefix(x, keyPrefix)}}

\* the continue token the last GetList call returned
LastToken == IF lists = <<>> THEN NoToken ELSE lists[Len(lists)].res.token

\* one GetList call of a caller between two handlers; it may continue the call
\* before it.  The record kept: the call, its result, the
\* revision counter and the live objects it ran on.
GetListCall(p) ==
    /\ pc[p] = "idle"
    /\ RLock
    /\ \E keyPrefix \in Prefixes, match \in Matches, predLimit \in 0 .. MaxLimit,
          cont \in {NoToken, LastToken} :
          /\ cont # NoToken => keyPrefix = lists[Len(lists)].keyPrefix
          /\ LET call == [keyPrefix |-> keyPrefix, match |-> match, limit |-> predLimit,
                          cont |-> cont, at |-> memoryRev,
                          res |-> GetList(keyPrefix, NoRV, match, predLimit, cont),
                          live |-> Live(keyPrefix)]
             IN lists' = IF cont # NoToken THEN <<lists[Len(lists)], call>>
                                           ELSE <<call>>
    /\ UNCHANGED <<store, watchers, wt, pc, loc, assigned, events, freezeWorld>>

\* ---------------------------------------------------------------- Get
\* a minimum that has to be met exactly
validateMinimumResourceVersion_Exact(minimumRV, actualRevision) ==
    IF minimumRV = NoRV THEN ""
    ELSE IF minimumRV # actualRevision THEN "TooLargeResourceVersion" ELSE ""

\* ms.validateMinimumResourceVersion(minimumResourceVersion, actualRevision):
\* NoRV is the empty string; the error it returns, "" for none
validateMinimumResourceVersion(minimumRV, actualRevision) ==
    IF minimumRV = NoRV THEN ""
    ELSE IF minimumRV > actualRevision THEN "TooLargeResourceVersion" ELSE ""

\* what Get hands back: its error and the revision of the object written to out
\* (0 when out is not written or is zeroed)
GetResult(key, minimumRV, ignoreNotFound) ==
    LET existingObj == KvsGet(key)
    IN IF existingObj = Nil
       THEN [err |-> IF ignoreNotFound THEN "" ELSE "KeyNotFound", rev |-> 0]
       ELSE LET err == validateMinimumResourceVersion(minimumRV, existingObj.rev)
            IN IF err # "" THEN [err |-> err, rev |-> 0]
                           ELSE [err |-> "", rev |-> existingObj.rev]

\* the minimum resource versions a reader may ask for: none, "0", the first
\* revision assigned, the newest, one that was not assigned yet
MinSet == {NoRV, 0, MemoryRevInit + 1, memoryRev, memoryRev + 1}

\* Get(ctx, key, opts, out): one read of the key map; the caller keeps the result
Get(p, K) ==
    /\ pc[p] = "idle"
    /\ RLock
    /\ \E k \in K, minimumRV \in MinSet, ignoreNotFound \in BOOLEAN :
          LET r == GetResult(k, minimumRV, ignoreNotFound)
          IN loc' = [loc EXCEPT ![p] = [NewLocals EXCEPT !.op = "Get", !.key = k,
                                          !.min = minimumRV, !.ignore = ignoreNotFound,
                                          !.rev = r.rev, !.err = r.err]]
    /\ UNCHANGED <<store, watchers, wt, pc, assigned, events, lists, freezeWorld>>

\* a ResourceVersionMatch value that is none of the three the store knows
MatchUnknown == "Unknown"

\* ms.getSingleObjectAsList(ctx, key, opts, listObj) with an empty predicate:
\* resourceVersion is NoRV for "" (fromRV is nil)
getSingleObjectAsList(key, resourceVersion, match) ==
    LET obj == KvsGet(key)
    IN IF obj = Nil
       THEN UpdateList(<<>>, memoryRev, NoToken, NoCount)
       ELSE LET rv == obj.rev
                item == <<[key |-> obj.key, rev |-> rv]>>
            IN IF resourceVersion # NoRV
               THEN CASE match = MatchNotOlderThan ->
                            UpdateList(IF rv >= resourceVersion THEN item ELSE <<>>,
                                       rv, NoToken, NoCount)
                      [] match = MatchExact ->
                            UpdateList(IF rv = resourceVersion THEN item ELSE <<>>,
                                       rv, NoToken, NoCount)
                      [] match = MatchUnset ->
                            UpdateList(IF rv > resourceVersion THEN item ELSE <<>>,
                                       rv, NoToken, NoCount)
                      [] OTHER ->
                            [UpdateList(<<>>, 0, NoToken, NoCount)
                                EXCEPT !.err = "UnknownMatchMode"]
               ELSE UpdateList(item, rv, NoToken, NoCount)

\* one GetList call with opts.Recursive false; the record kept: the call, its
\* result and the object the key map held
GetListSingle(p) ==
    /\ pc[p] = "idle"
    /\ RLock
    /\ \E key \in Keys, resourceVersion \in MinSet, match \in Matches \cup {MatchUnknown} :
          lists' = <<[key |-> key, rv |-> resourceVersion, match |-> match,
                      at |-> memoryRev, obj |-> KvsGet(key),
                      res |-> getSingleObjectAsList(key, resourceVersion, match)]>>
    /\ UNCHANGED <<store, watchers, wt, pc, loc, assigned, events, freezeWorld>>

\* --------------------------------------------------------------- watch
\* watch up to the replay scan: the watcher is made and appended to ms.watchers;
\* with a start revision of 0 or 1 there is no replay and run is started
WatchBegin(p, RVs, Ms) ==
    /\ pc[p] = "idle"
    /\ \E w \in Watchers, prefix \in Prefixes, rv \in RVs, match \in Ms :
          /\ ~wt[w].created
          /\ watchers' = Append(watchers, w)
          /\ wt' = [wt EXCEPT ![w] = [NewWatcher EXCEPT !.created = TRUE,
                                        !.prefix = prefix, !.match = match,
                                        !.rv = rv, !.at = memoryRev,
                                        !.running = ~(rv > 1)]]
          /\ pc' = [pc EXCEPT ![p] = IF rv > 1 THEN "scan" ELSE "idle"]
          /\ loc' = [loc EXCEPT ![p] = [NewLocals EXCEPT !.op = "Watch", !.w = w]]
    /\ UNCHANGED <<store, assigned, events, lists, freezeWorld>>

\* objEvents = ms.getObjEventsAfterRev(key, rev, opts), entry: the read lock of
\* getObjEventsAfterRev is taken
WatchScanLock(p) ==
    /\ pc[p] = "scan"
    /\ RLock
    /\ pc' = [pc EXCEPT ![p] = "search"]
    /\ UNCHANGED <<store, watchers, wt, loc, assigned, events, lists, freezeWorld>>

\* getObjEventsAfterRev from its call of binarySearchInObjList on, which takes
\* the read lock a second time; then go watcher.run(...)
WatchScan(p) ==
    /\ pc[p] = "search"
    /\ RLock
    /\ LET w == loc[p].w
       IN wt' = [wt EXCEPT ![w].replay =
                              getObjEventsAfterRev(wt[w].prefix, wt[w].rv, wt[w].match),
                           ![w].running = TRUE]
    /\ pc' = [pc EXCEPT ![p] = "idle"]
    /\ UNCHANGED <<store, watchers, loc, assigned, events, lists, freezeWorld>>

\* ms.watch(ctx, key, opts, withOldObj)
Watch(p, RVs, Ms) == WatchBegin(p, RVs, Ms) \/ WatchScanLock(p) \/ WatchScan(p)

\* watcher.run, one event: the replay batch first, then the incoming channel,
\* of which the events under the watcher's prefix are passed on
WatcherRun(w) ==
    /\ wt[w].running
    /\ ~wt[w].stopped
    /\ IF wt[w].replay # <<>>
       THEN wt' = [wt EXCEPT ![w].replay = Tail(@),
                             ![w].received = Append(@, Head(wt[w].replay))]
       ELSE /\ wt[w].incoming # <<>>
            /\ LET e == Head(wt[w].incoming)
               IN wt' = [wt EXCEPT ![w].incoming = Tail(@),
                                   ![w].received = IF HasPrefix(e.key, wt[w].prefix)
                                                   THEN Append(@, e) ELSE @]
    /\ UNCHANGED <<store, watchers, pc, loc, assigned, events, lists, freezeWorld>>

\* the watch is cancelled or stopped by its caller
WatcherStop(w) ==
    /\ wt[w].running
    /\ ~wt[w].stopped
    /\ wt' = [wt EXCEPT ![w].stopped = TRUE]
    /\ UNCHANGED <<store, watchers, pc, loc, assigned, events, lists, freezeWorld>>

\* -------------------------------------------------- Count, Stop, shrink
\* ms.kvs.count(keys): the objects of the key map under a prefix
KvsCount(prefix) == Cardinality({k \in Keys : kvs[k] # Nil /\ HasPrefix(k, prefix)})

\* Count: the key map is counted; freezeWorld is not taken
Count(p, Ps) ==
    /\ pc[p] = "idle"
    /\ \E prefix \in Ps :
          loc' = [loc EXCEPT ![p] = [NewLocals EXCEPT !.op = "Count",
                                                       !.count = KvsCount(prefix)]]
    /\ UNCHANGED <<store, watchers, wt, pc, assigned, events, lists, freezeWorld>>

\* ms.freezeWorld.Lock() is called by Stop or shrink: from now on no reader gets in
Lock(op) ==
    /\ freezeWorld.writer = "none"
    /\ freezeWorld' = [freezeWorld EXCEPT !.writer = "waiting", !.op = op]
    /\ UNCHANGED <<store, watchers, wt, pc, loc, assigned, events, lists>>

\* ms.freezeWorld.Lock() returns once every read lock was given back
LockAcquire ==
    /\ freezeWorld.writer = "waiting"
    /\ \A p \in Procs : Readers(p) = 0
    /\ freezeWorld' = [freezeWorld EXCEPT !.writer = "held"]
    /\ UNCHANGED <<store, watchers, wt, pc, loc, assigned, events, lists>>

\* Stop returns: the deferred Unlock runs, nothing else is done
StopReturn ==
    /\ freezeWorld.writer = "held" /\ freezeWorld.op = "Stop"
    /\ freezeWorld' = [writer |-> "none", op |-> "", stopped |-> TRUE]
    /\ UNCHANGED <<store, watchers, wt, pc, loc, assigned, events, lists>>

\* Stop
Stop ==
    \/ Lock("Stop")
    \/ freezeWorld.op = "Stop" /\ LockAcquire
    \/ StopReturn

\* the present slots among the first n of kvList, in their order
RECURSIVE Compact(_)
Compact(n) ==
    IF n = 0 THEN <<>>
    ELSE IF kvList[n] = Nil THEN Compact(n - 1)
    ELSE Append(Compact(n - 1), kvList[n])

\* kvList.shrink(c): the present slots are copied into a fresh list and each
\* object is given its new index
Shrunk ==
    LET live == Compact(Len(kvList))
    IN [i \in 1 .. Len(live) |-> [live[i] EXCEPT !.index = i - 1]]

\* the body of shrink and its deferred Unlock.  The objects of the list are
\* the objects the key map points to, so the key map sees the new indexes.
ShrinkRun ==
    /\ freezeWorld.writer = "held" /\ freezeWorld.op = "shrink"
    /\ IF Len(kvList) > KvsCount(<<>>) + NilSlotMemoryShrinkThrehold
       THEN /\ kvList' = Shrunk
            /\ kvCap' = Len(Shrunk)
            /\ kvs' = [k \in Keys |->
                         IF \E i \in 1 .. Len(Shrunk) :
                               Compact(Len(kvList))[i] = kvs[k]
                         THEN [kvs[k] EXCEPT !.index =
                                  (CHOOSE i \in 1 .. Len(Shrunk) :
                                      Compact(Len(kvList))[i] = kvs[k]) - 1]
                         ELSE kvs[k]]
       ELSE UNCHANGED <<kvs, kvList, kvCap>>
    /\ freezeWorld' = [freezeWorld EXCEPT !.writer = "none", !.op = ""]
    /\ UNCHANGED <<memoryRev, watchers, wt, pc, loc, assigned, events, lists>>

\* shrink
shrink ==
    \/ Lock("shrink")
    \/ freezeWorld.op = "shrink" /\ LockAcquire
    \/ ShrinkRun

\* ------------------------------------------------------- specification
\* two callers run the mutating handlers concurrently
Next == \E p \in Procs : Mutate(p, HotKeys, MaxMut)

Spec == Init /\ [][Next]_vars

\* two callers create and delete while watches are registered, served and stopped
BroadcastNext ==
    \/ \E p \in Procs : Create(p, HotKeys, MaxMut)
    \/ \E p \in Procs : Delete(p, HotKeys, MaxMut)
    \/ \E p \in Procs : Watch(p, {0, memoryRev}, {MatchUnset})
    \/ \E w \in Watchers : WatcherRun(w)
    \/ \E w \in Watchers : WatcherStop(w)

BroadcastSpec == Init /\ [][BroadcastNext]_vars

\* one caller runs the handlers one after the other and watches
SeqNext ==
    \/ Mutate("p1", Keys, MaxMut)
    \/ Watch("p1", RevSet, Matches)
    \/ \E w \in Watchers : WatcherRun(w)
    \/ \E w \in Watchers : WatcherStop(w)

SeqSpec == Init /\ [][SeqNext]_vars

\* one caller runs the handlers one after the other and lists page by page
ListNext ==
    \/ Mutate("p1", Keys, MaxMut)
    \/ GetListCall("p1")

ListSpec == Init /\ [][ListNext]_vars

\* one caller runs the handlers one after the other while another lists
ConcurrentListNext ==
    \/ Mutate("p1", HotKeys, MaxMut)
    \/ GetListCall("p2")

ConcurrentListSpec == Init /\ [][ConcurrentListNext]_vars

\* one caller runs the handlers one after the other and lists single keys
SingleNext ==
    \/ Mutate("p1", Keys, MaxMut)
    \/ GetListSingle("p1")

SingleSpec == Init /\ [][SingleNext]_vars

\* one caller runs the handlers one after the other while another reads keys
GetNext ==
    \/ Mutate("p1", Keys, MaxMut)
    \/ Get("p2", Keys)

GetSpec == Init /\ [][GetNext]_vars

\* one caller calls CreateOrReplace again and again while another reads keys
ReplaceNext ==
    \/ CreateOrReplace("p1", Keys, MaxMut)
    \/ Get("p2", Keys)

ReplaceSpec == Init /\ [][ReplaceNext]_vars

\* one caller creates keys and calls EnsureUpdateAndDelete on them while another
\* reads keys
EnsureNext ==
    \/ Create("p1", Keys, MaxMut)
    \/ EnsureUpdateAndDelete("p1", Keys, MaxMut)
    \/ Get("p2", Keys)

EnsureSpec == Init /\ [][EnsureNext]_vars

\* one caller creates and deletes, another watches and counts, watchers are
\* served, and Stop and shrink are called from outside
GateNext ==
    \/ Create("p1", HotKeys, MaxMut)
    \/ Delete("p1", HotKeys, MaxMut)
    \/ Watch("p2", {0, memoryRev}, {MatchUnset})
    \/ Count("p2", Prefixes)
    \/ \E w \in Watchers : WatcherRun(w)
    \/ Stop
    \/ shrink

GateSpec == Init /\ [][GateNext]_vars

\* a step of a handler that has been entered
Running(p) ==
    /\ pc[p] # "idle"
    /\ \/ Create(p, HotKeys, MaxMut)
       \/ Delete(p, HotKeys, MaxMut)
       \/ WatchScanLock(p)
       \/ WatchScan(p)

\* GateSpec with the scheduler's fairness: a goroutine that stays able to take
\* its next step takes it, whether inside a handler, inside Lock, or a
\* watcher's run loop; nobody has to call the store again
FairGateSpec ==
    /\ GateSpec
    /\ \A p \in Procs : WF_vars(Running(p))
    /\ WF_vars(LockAcquire)
    /\ WF_vars(StopReturn)
    /\ WF_vars(ShrinkRun)
    /\ \A w \in Watchers : WF_vars(WatcherRun(w))

\* ============================================================ properties
\* no caller is inside a handler
Quiescent == \A p \in Procs : pc[p] = "idle"

\* a sequence of revisions is strictly increasing
Increasing(revs) == \A i, j \in DOMAIN revs : i < j => revs[i] < revs[j]

\* the revisions of a sequence of events or list items
Revs(seq) == [i \in DOMAIN seq |-> seq[i].rev]

\* C1: the revisions handed out are strictly increasing in the order they were
\* assigned, hence pairwise distinct; no two broadcast mutations and no two
\* callers inside a handler share a revision; the counter is never below a
\* revision it handed out.
C1_RevisionsStrictlyIncreasing ==
    /\ Increasing(assigned)
    /\ \A i \in DOMAIN assigned : MemoryRevInit < assigned[i] /\ assigned[i] <= memoryRev
    /\ \A e1, e2 \in events : e1 # e2 => e1.rev # e2.rev
    /\ \A e \in events : \E i \in DOMAIN assigned : assigned[i] = e.rev
    /\ \A p, q \in Procs : p # q /\ loc[p].rev # 0 => loc[p].rev # loc[q].rev

\* C1 witness: every kind of mutation was broadcast, one of them by a Delete,
\* and the callers used up the revisions of the bound
C1_Witness ==
    /\ Len(assigned) = MaxMut
    /\ \E e1, e2, e3 \in events :
          e1.kind = "Created" /\ e2.kind = "Updated" /\ e3.kind = "Deleted"

\* C2: of two mutations of keys under a watcher's prefix, the event of the
\* lower revision is never put on the watcher's incoming channel after the
\* event of the higher one.
C2_EnqueuedInRevisionOrder ==
    \A w \in Watchers :
        \A i, j \in DOMAIN wt[w].enq :
            \A e1, e2 \in events :
                /\ i < j /\ e1.rev = wt[w].enq[i] /\ e2.rev = wt[w].enq[j]
                /\ HasPrefix(e1.key, wt[w].prefix) /\ HasPrefix(e2.key, wt[w].prefix)
                => e1.rev < e2.rev

\* C3: a caller inside sendEvent never has to wait for a watcher: the watcher
\* it is about to send to is stopped or has room in its incoming channel.
C3_SendNeverBlocks ==
    \A p \in Procs :
        pc[p] = "sendLoop" /\ loc[p].snap # <<>> =>
            LET v == Head(loc[p].snap)
            IN wt[v].stopped \/ Len(wt[v].incoming) < IncomingCap

\* C4: with no mutation in progress, the slot the key map holds for a live key
\* is the slot found in the revision list at the index that slot stores.
C4_KeyMapSlotIsListSlot ==
    Quiescent =>
        \A k \in Keys :
            kvs[k] # Nil =>
                /\ kvs[k].key = k
                /\ kvs[k].index < Len(kvList)
                /\ kvList[kvs[k].index + 1] = kvs[k]

\* the indexes of the revision list that hold an object of key k
PresentSlots(k) == {i \in DOMAIN kvList : kvList[i] # Nil /\ kvList[i].key = k}

\* C5: with no mutation in progress, a live key has exactly one present slot in
\* the revision list (so every earlier slot reserved for it is nil).
C5_OnePresentSlotPerLiveKey ==
    Quiescent =>
        \A k \in Keys : kvs[k] # Nil => Cardinality(PresentSlots(k)) = 1

\* the revisions of the mutations a watcher asked for: those of keys under its
\* prefix, and with a start revision those its match rule lets through
Matching(w) ==
    {e.rev : e \in {x \in events :
                      /\ HasPrefix(x.key, wt[w].prefix)
                      /\ wt[w].rv > 1 => MatchRule(wt[w].match, x.rev, wt[w].rv)}}

\* the watcher has been handed everything that was sent to it
Drained(w) ==
    /\ Quiescent
    /\ wt[w].running /\ ~wt[w].stopped
    /\ wt[w].replay = <<>> /\ wt[w].incoming = <<>>

\* every handler that mutates has run to its end (a watch may be half way)
NoMutationInProgress == \A p \in Procs : pc[p] \in {"idle", "scan", "search"}

\* C6: what a watcher receives, replay batch then live events, is strictly
\* increasing in revision and is a suffix of the mutations it asked for: every
\* received revision is one of them, none between two received ones is left
\* out, and once the watcher is drained none after the first received is missing.
C6_WatchStreamIsSuffix ==
    NoMutationInProgress =>
    \A w \in Watchers :
        LET r == Revs(wt[w].received)
        IN /\ Increasing(r)
           /\ \A i \in DOMAIN r : r[i] \in Matching(w)
           /\ \A m \in Matching(w) :
                 r # <<>> /\ r[1] < m /\ (m < r[Len(r)] \/ Drained(w)) =>
                     \E i \in DOMAIN r : r[i] = m

\* C7: the replay batch for a start revision above 1 is made of Created events,
\* in increasing revision order, one for each live object under the prefix that
\* the match rule lets through, and of nothing else.
C7_ReplayBatchIsLiveObjects ==
    Quiescent =>
        \A prefix \in Prefixes, match \in Matches, rev \in 2 .. memoryRev :
            LET batch == getObjEventsAfterRev(prefix, rev, match)
            IN /\ \A i \in DOMAIN batch : batch[i].kind = "Created"
               /\ Increasing(Revs(batch))
               /\ {[key |-> batch[i].key, rev |-> batch[i].rev] : i \in DOMAIN batch}
                     = {o \in Live(prefix) : MatchRule(match, o.rev, rev)}

\* no (key, rev) twice in a sequence of list items, revisions never going down
OnceInOrder(items) ==
    \A i, j \in DOMAIN items :
        i < j => items[i] # items[j] /\ items[i].rev <= items[j].rev

\* the last list call continued the one before it, in the same match mode
TwoPages ==
    /\ Len(lists) = 2
    /\ lists[2].cont # NoToken
    /\ lists[1].match = lists[2].match
    /\ lists[2].res.err = ""

\* C8: a page and the page listed with its continue token, nothing having
\* changed in between, together hold every object at most once and in
\* non-decreasing revision order, whatever the match mode of the two calls.
C8_TwoPagesOnceInOrder ==
    TwoPages /\ lists[1].at = lists[2].at =>
        OnceInOrder(lists[1].res.items \o lists[2].res.items)

\* the pages of a listing with limit L in the unset match mode, each page asked
\* for with the token of the one before, until a page has no token
RECURSIVE Pages(_, _, _, _)
Pages(keyPrefix, L, cont, fuel) ==
    LET page == GetList(keyPrefix, NoRV, MatchUnset, L, cont)
    IN IF page.token = NoToken \/ fuel = 0
       THEN <<page>>
       ELSE <<page>> \o Pages(keyPrefix, L, page.token, fuel - 1)

\* the items of a sequence of pages, one after the other
RECURSIVE Flatten(_)
Flatten(pages) ==
    IF pages = <<>> THEN <<>> ELSE Head(pages).items \o Flatten(Tail(pages))

\* C9: with no mutation in progress or between the pages, paging through a
\* prefix with limit L ends, no page holds more than L items, and the pages
\* together hold every live object under the prefix exactly once, in
\* non-decreasing revision order.
C9_PagingVisitsLiveObjectsOnce ==
    Quiescent =>
        \A keyPrefix \in Prefixes, L \in 1 .. MaxLimit :
            LET pages == Pages(keyPrefix, L, NoToken, Len(kvList) + 1)
                seen == Flatten(pages)
            IN /\ pages[Len(pages)].token = NoToken
               /\ \A i \in DOMAIN pages : Len(pages[i].items) <= L
               /\ OnceInOrder(seen)
               /\ {seen[i] : i \in DOMAIN seen} = Live(keyPrefix)

\* the events of the mutations made between the last two list calls
Between == {e \in events : lists[1].at < e.rev /\ e.rev <= lists[2].at}

\* C10: when the key K of a continue token was updated, and nothing else was
\* changed, before the token is used in the Exact or unset match mode, the
\* second page does not hold K, and it leaves out no live object of a revision
\* above the token's that the page had room for.
C10_UpdatedTokenKeyNotEmittedAgain ==
    TwoPages /\ lists[2].match # MatchNotOlderThan =>
        LET c == DecodeContinue(lists[2].cont, lists[2].keyPrefix)
            page == lists[2].res
        IN Between # {} /\ (\A e \in Between : e.key = c.key /\ e.kind = "Updated") =>
              /\ \A i \in DOMAIN page.items : page.items[i].key # c.key
              /\ \A o \in lists[2].live :
                    o.key # c.key /\ o.rev > c.rv =>
                        \/ \E i \in DOMAIN page.items : page.items[i] = o
                        \/ /\ page.token # NoToken
                           /\ \A i \in DOMAIN page.items : page.items[i].rev < o.rev

\* the events of the mutations of key k, and the newest of them
EventsOf(k) == {e \in events : e.key = k}
LastEvent(k) == CHOOSE e \in EventsOf(k) : \A f \in EventsOf(k) : f.rev <= e.rev

\* C11: round trip on a key, every mutation having returned: a plain Get gives
\* the revision the newest Create or update of the key was assigned, an update
\* has a revision above that of the version it replaced, and after a Delete
\* (or before any Create) Get fails with KeyNotFound.
C11_CreateUpdateDeleteGetRoundTrip ==
    NoMutationInProgress =>
        \A k \in Keys :
            LET r == GetResult(k, NoRV, FALSE)
            IN /\ EventsOf(k) = {} => r = [err |-> "KeyNotFound", rev |-> 0]
               /\ EventsOf(k) # {} =>
                     IF LastEvent(k).kind = "Deleted"
                     THEN r = [err |-> "KeyNotFound", rev |-> 0]
                     ELSE r = [err |-> "", rev |-> LastEvent(k).rev]
               /\ \A e \in EventsOf(k) :
                     e.kind = "Updated" =>
                         \E f \in EventsOf(k) :
                             /\ f.rev < e.rev /\ f.kind # "Deleted"
                             /\ \A g \in EventsOf(k) : ~(f.rev < g.rev /\ g.rev < e.rev)

\* a Get that fails with KeyNotFound on a key that was created, updated and deleted
C11_Witness ==
    /\ NoMutationInProgress
    /\ \E p \in Procs :
          /\ loc[p].op = "Get" /\ loc[p].err = "KeyNotFound"
          /\ \E e1, e2, e3 \in EventsOf(loc[p].key) :
                /\ e1.kind = "Created" /\ e2.kind = "Updated" /\ e3.kind = "Deleted"
                /\ e1.rev < e2.rev /\ e2.rev < e3.rev

\* what a handler may change besides the position and the locals of its caller
shared == <<store, watchers, wt, assigned, events, lists>>

\* C12: a Create of a key that the key map holds returns KeyExists at once, and
\* the step that returns KeyExists leaves the key map, the revision list, the
\* revision counter, the watchers and the events sent as they were.
C12_CreateOnExistingKey ==
    [][\A p \in Procs :
          /\ \A k \in Keys :
                CreateBegin(p, {k}, MaxMut) /\ KvsGet(k) # Nil =>
                    pc'[p] = "idle" /\ loc'[p].err = "KeyExists"
          /\ loc'[p].err = "KeyExists" /\ loc'[p] # loc[p] => UNCHANGED shared]_vars

\* a Create has returned KeyExists
C12_Witness ==
    \E p \in Procs : pc[p] = "idle" /\ loc[p].err = "KeyExists"

\* the positions of a handler after its put went through
AfterPut == {"clearLoad", "clear", "storeLoad", "store", "send", "sendLoop"}

\* caller p is inside GuaranteedUpdate(k) and has read the version cur of k
Updating(p, k, cur) ==
    loc[p].op = "GuaranteedUpdate" /\ loc[p].key = k /\ loc[p].cur = cur

\* C13: of two GuaranteedUpdate calls that read the same version of a key at
\* most one gets past its put; a put that finds another version in the key map
\* returns a conflict and changes nothing, and a put that goes through installs
\* the caller's new revision.
C13_NoLostUpdate ==
    [][\A p \in Procs :
          /\ \A q \in Procs \ {p} :
                Updating(p, loc[p].key, loc[p].cur) /\ Updating(q, loc[p].key, loc[p].cur)
                    => ~(pc[p] \in AfterPut /\ pc[q] \in AfterPut)
          /\ loc[p].op = "GuaranteedUpdate" /\ pc[p] = "put" /\ pc'[p] # "put" =>
                IF KvsGet(loc[p].key) = loc[p].cur
                THEN /\ pc'[p] \in AfterPut
                     /\ kvs'[loc[p].key].rev = loc[p].rev
                ELSE /\ pc'[p] = "idle" /\ loc'[p].err = "Conflict"
                     /\ UNCHANGED shared]_vars

\* two GuaranteedUpdate calls read the same version; one has replaced it, the
\* other has reserved its revision and is at its put
C13_Witness ==
    \E p, q \in Procs :
        /\ p # q /\ loc[p].cur # Nil
        /\ Updating(p, loc[p].key, loc[p].cur) /\ Updating(q, loc[p].key, loc[p].cur)
        /\ pc[p] = "put" /\ pc[q] \in AfterPut

\* C14: CreateOrReplace called again and again by one caller, starting with no
\* key present: once the calls have returned each of them has sent exactly one
\* event with its own revision, the first event of a key is Created and every
\* later one Updated, and Get returns the key at the revision of the last call
\* made for it (so two calls for a key give one Created, then one Updated of a
\* greater revision).
C14_CreateOrReplaceTwice ==
    Quiescent =>
        /\ Cardinality(events) = Len(assigned)
        /\ \A e \in events : \E i \in DOMAIN assigned : assigned[i] = e.rev
        /\ \A k \in Keys :
              /\ \A e \in EventsOf(k) :
                    e.kind = IF \E f \in EventsOf(k) : f.rev < e.rev THEN "Updated"
                                                                   ELSE "Created"
              /\ EventsOf(k) # {} =>
                    GetResult(k, NoRV, FALSE) = [err |-> "", rev |-> LastEvent(k).rev]

\* CreateOrReplace was called twice for a key, and a Get returned the key at the
\* revision of the second call
C14_Witness ==
    /\ Quiescent
    /\ \E p \in Procs, e1, e2 \in events :
          /\ e1.kind = "Created" /\ e2.kind = "Updated" /\ e1.rev < e2.rev
          /\ EventsOf(loc[p].key) = {e1, e2}
          /\ loc[p].op = "Get" /\ loc[p].err = "" /\ loc[p].rev = e2.rev

\* the mutation that sent event e has returned
Returned(e) == \A p \in Procs : pc[p] = "idle" \/ loc[p].rev # e.rev

\* key k was never deleted and no Delete of it is under way
NeverDeleted(k) ==
    /\ \A e \in EventsOf(k) : e.kind # "Deleted"
    /\ \A p \in Procs : ~(loc[p].op = "Delete" /\ loc[p].key = k)

\* the reads of the first half of C15
C15_ReadYourWrites ==
    \A e \in events :
        Returned(e) /\ NeverDeleted(e.key) =>
            LET r == GetResult(e.key, NoRV, FALSE)
            IN r.err = "" /\ r.rev >= e.rev

\* the second half of C15
C15_VisibleWhenSent ==
    \A p \in Procs :
        /\ pc[p] \in {"send", "sendLoop"} /\ loc[p].kind # "Deleted"
        /\ KvsGet(loc[p].key) # Nil /\ KvsGet(loc[p].key).rev = loc[p].rev
        => kvList[loc[p].index + 1] = KvsGet(loc[p].key)

\* C15: once a Create or an update of a key has returned, and the key was not
\* deleted, Get returns the key at that mutation's revision or a later one; and
\* while a caller sends the event of the version it has put into the key map,
\* that version is in the revision list too.
C15_ReadYourWritesAndVisible == C15_ReadYourWrites /\ C15_VisibleWhenSent

\* C16: a step in which a caller gets the result of a Get changes nothing but
\* that caller's locals; for a key the key map holds at revision c, a Get with
\* minimum m fails with TooLargeResourceVersion exactly when m is given and
\* m > c, and otherwise returns the object at revision c.
C16_GetMinimumResourceVersion ==
    [][\A p \in Procs :
          loc'[p].op = "Get" /\ loc'[p] # loc[p] =>
              /\ UNCHANGED <<shared, pc, freezeWorld>>
              /\ LET cur == KvsGet(loc'[p].key)
                     m == loc'[p].min
                 IN cur # Nil =>
                        IF m # NoRV /\ m > cur.rev
                        THEN loc'[p].err = "TooLargeResourceVersion"
                        ELSE loc'[p].err = "" /\ loc'[p].rev = cur.rev]_vars

\* a Get of a present key has failed on a minimum above the key's revision
C16_Witness ==
    \E p \in Procs :
        /\ loc[p].op = "Get" /\ KvsGet(loc[p].key) # Nil
        /\ loc[p].err = "TooLargeResourceVersion" /\ loc[p].min > KvsGet(loc[p].key).rev

C18_CreateOrUpdateWithoutMergeFails ==
    [][\A p \in Procs, k \in Keys :
          CreateOrUpdateWith(p, k, "nil", MaxMut) =>
              pc'[p] = "idle" /\ loc'[p].err # "" /\ UNCHANGED shared]_vars

\* C19: an EnsureUpdateAndDelete whose updated object asks for deletion returns
\* without an error only when the key is no longer in the key map and an
\* Updated event of the key followed by a Deleted event of it was sent.
C19_EnsureUpdateAndDeleteSuccessMeansRemoved ==
    [][\A p \in Procs :
          /\ loc[p].outer = "EnsureUpdateAndDelete" /\ loc[p].shouldDelete
          /\ pc[p] # "idle" /\ pc'[p] = "idle" /\ loc'[p].err = ""
          => /\ kvs'[loc[p].key] = Nil
             /\ \E u \in events', d \in events' :
                   /\ u.key = loc[p].key /\ u.kind = "Updated"
                   /\ d.key = loc[p].key /\ d.kind = "Deleted"
                   /\ u.rev < d.rev]_vars

\* C20: a mutation that returns without an error has broadcast exactly one
\* event, of its own key, kind and assigned revision; an object put into the
\* key map carries that same revision; an operation that returns an error has
\* broadcast no event; every broadcast is made by a handler at its sendEvent
\* with a revision that was assigned and not broadcast before; no event carries
\* a revision greater than the revision counter.
C20_OneEventPerMutation ==
    [][/\ \A p \in Procs :
             /\ pc[p] # "idle" /\ pc'[p] = "idle" =>
                   IF loc'[p].err = ""
                   THEN /\ pc[p] = "sendLoop"
                        /\ ObjEvent(loc[p].key, loc[p].rev, loc[p].kind) \in events
                        /\ Cardinality({e \in events : e.rev = loc[p].rev}) = 1
                   ELSE \A e \in events : e.rev # loc[p].rev
             /\ pc[p] = "put" /\ pc'[p] \notin {"put", "idle"} =>
                   /\ kvs'[loc[p].key].rev = loc[p].rev
                   /\ loc[p].kind \in {"Created", "Updated"}
       /\ events' # events =>
             \E p \in Procs :
                /\ pc[p] = "send"
                /\ events' = events \cup {ObjEvent(loc[p].key, loc[p].rev, loc[p].kind)}
                /\ \E i \in 1 .. Len(assigned) : assigned[i] = loc[p].rev
                /\ \A e \in events : e.rev # loc[p].rev
       /\ \A e \in events' : e.rev <= memoryRev']_vars

\* a create, an update and a delete have broadcast and every caller has returned
C20_Witness ==
    /\ \A p \in Procs : pc[p] = "idle"
    /\ \A kind \in {"Created", "Updated", "Deleted"} : \E e \in events : e.kind = kind

\* C21: once Stop has returned no operation is started: a caller that is
\* outside every handler stays outside, and no watcher is registered.
C21_NoOperationAfterStop ==
    [][freezeWorld.stopped =>
          /\ \A p \in Procs : pc[p] = "idle" => pc'[p] = "idle"
          /\ watchers' = watchers \/ Len(watchers') < Len(watchers)]_vars

\* the watchers in a watcher list
InList(ws) == {ws[i] : i \in 1 .. Len(ws)}

\* C22: no event is sent to a watcher that is marked stopped, and the watcher
\* list a broadcast leaves holds every registered watcher that is not stopped
\* and no watcher that was already stopped when the broadcast began.
C22_BroadcastPrunesExactlyStopped ==
    [][/\ \A w \in Watchers : wt'[w].enq # wt[w].enq => ~wt[w].stopped
       /\ \A p \in Procs :
             pc[p] = "sendLoop" /\ pc'[p] # "sendLoop" =>
                /\ \A w \in Watchers :
                      wt[w].created /\ ~wt[w].stopped => w \in InList(watchers')
                /\ \A w \in InList(watchers') : w \in InList(loc[p].keep)]_vars

\* C23: in every state the present slots of the revision list are strictly
\* increasing in revision by position, under concurrent writers and although
\* Delete bumps the revision without appending a slot.
C23_SlotsIncreaseInRevision ==
    \A i \in 1 .. Len(kvList), j \in 1 .. Len(kvList) :
        i < j /\ kvList[i] # Nil /\ kvList[j] # Nil => kvList[i].rev < kvList[j].rev

\* two present slots whose revisions have the revision of a Delete between them
C23_Witness ==
    \E i \in 1 .. Len(kvList), j \in 1 .. Len(kvList), e \in events :
        /\ i < j /\ kvList[i] # Nil /\ kvList[j] # Nil
        /\ e.kind = "Deleted" /\ kvList[i].rev < e.rev /\ e.rev < kvList[j].rev

\* the smallest index whose slot is present with a revision of at least rv, the
\* length of the list when there is none
FirstAtLeast(rv) ==
    LET hits == {i \in 0 .. Len(kvList) - 1 :
                    kvList[i + 1] # Nil /\ kvList[i + 1].rev >= rv}
    IN IF hits = {} THEN Len(kvList)
       ELSE CHOOSE i \in hits : \A j \in hits : i <= j

\* C24: whenever no mutation is in progress, binarySearchInObjList(rv) is the
\* smallest index whose slot is present with a revision of at least rv (the
\* length of the list when there is none), for every rv up to one past the
\* revision counter.
C24_BinarySearchFindsFirstAtLeast ==
    NoMutationInProgress =>
        \A rv \in 0 .. memoryRev + 1 : binarySearchInObjList(rv) = FirstAtLeast(rv)

\* C25: a Delete goes past its first step only for a key the key map holds, and
\* a call that returns KeyNotFound returns in its first step; the first step
\* of any Delete and the step in which a Delete returns an error
\* (failed preconditions, rejected by the validator) leave the key map, the
\* revision list, the revision counter and the events unchanged, and a Delete
\* that returns an error has taken no other step.
C25_FailedDeleteChangesNothing ==
    [][\A p \in Procs :
          /\ pc[p] = "idle" /\ loc'[p] # loc[p] /\ loc'[p].err = "KeyNotFound" =>
                UNCHANGED shared
          /\ pc[p] = "idle" /\ pc'[p] = "delRev" =>
                KvsGet(loc'[p].key) # Nil /\ UNCHANGED shared
          /\ loc[p].op = "Delete" /\ pc[p] # "idle" /\ pc'[p] = "idle"
                /\ loc'[p].err # "" =>
                    /\ pc[p] = "delRev" /\ loc[p].rev = 0
                    /\ loc'[p].err \in {"PreconditionFailed", "Invalid"}
                    /\ UNCHANGED shared]_vars

\* one Delete has failed its preconditions, another was rejected or found no key
C25_Witness ==
    \E p \in Procs, q \in Procs :
        /\ pc[p] = "idle" /\ loc[p].err = "PreconditionFailed"
        /\ pc[q] = "idle" /\ loc[q].err \in {"Invalid", "KeyNotFound"}

\* C26: the object a Delete removes from the key map is the very object
\* version the Delete read and checked, which is the pre-image of its event,
\* and the revision of the Delete is greater than that version's.
C26_DeleteRemovesCheckedVersion ==
    [][\A p \in Procs :
          loc[p].op = "Delete" /\ pc[p] = "del" /\ pc'[p] # "del" =>
              /\ KvsGet(loc[p].key) # Nil => KvsGet(loc[p].key) = loc[p].cur
              /\ loc[p].cur.rev < loc[p].rev]_vars

\* C27: with no mutation in progress, every present slot of the revision list
\* is the slot the key map holds for the slot's key; no key that is not in the
\* key map has a present slot.
C27_PresentSlotIsKeyMapSlot ==
    Quiescent =>
        \A i \in DOMAIN kvList : kvList[i] # Nil => KvsGet(kvList[i].key) = kvList[i]

\* C28: a caller that holds the read lock of getObjEventsAfterRev and asks for
\* it again inside binarySearchInObjList always gets it and returns, also when
\* Stop or shrink has asked for the write lock in between.
C28_NestedReadLockReturns ==
    \A p \in Procs : (pc[p] = "search") ~> (pc[p] = "idle")

\* C29: a watcher that has been registered and is not stopped is in the watcher
\* list, and once every caller has returned it has been sent every event whose
\* revision was assigned after its registration.
C29_RegisteredWatcherNeverLost ==
    \A w \in Watchers :
        wt[w].created /\ ~wt[w].stopped =>
            /\ w \in InList(watchers)
            /\ Quiescent =>
                  \A e \in events :
                      e.rev > wt[w].at => \E i \in 1 .. Len(wt[w].enq) : wt[w].enq[i] = e.rev

\* C30: while Stop or shrink holds freezeWorld for write no caller takes a step
\* of a public operation: no caller moves or gets a result, and the watcher
\* list is left alone.
C30_NoOperationUnderWriteLock ==
    [][freezeWorld.writer = "held" => UNCHANGED <<pc, loc, watchers>>]_vars

\* the index of the slot that holds the object of key k at revision rv
SlotOf(k, rv) ==
    CHOOSE i \in 0 .. Len(kvList) - 1 :
        kvList[i + 1] # Nil /\ kvList[i + 1].key = k /\ kvList[i + 1].rev = rv

\* a first page of at most L items under keyPrefix: its size, its token, and
\* its remainingItemCount
PageWithinLimit(keyPrefix, match, L) ==
    LET r == GetList(keyPrefix, NoRV, match, L, NoToken)
        n == Len(r.items)
        last == r.items[n]
    IN /\ r.err = "" /\ n <= L
       /\ r.token # NoToken <=> n = L /\ SlotOf(last.key, last.rev) < Len(kvList) - 1
       /\ r.token # NoToken => r.token = EncodeContinue(last.key, keyPrefix, last.rev)
       /\ r.remaining # NoCount <=> r.token # NoToken

PageRemainingIsLive(keyPrefix, match, L) ==
    LET r == GetList(keyPrefix, NoRV, match, L, NoToken)
    IN r.remaining # NoCount =>
          r.remaining = Cardinality(Live(keyPrefix) \ {r.items[i] : i \in 1 .. Len(r.items)})

\* C31: with no mutation in progress, a first recursive GetList page of limit
\* L > 0 holds at most L items, carries a continue token exactly when L items
\* were collected and slots remain after the slot of the last one, the token
\* encodes the key and revision of the last item, and the remainingItemCount
\* it reports is the number of live objects under the prefix not on the page.
C31_PageLimitTokenAndRemaining ==
    NoMutationInProgress =>
        \A keyPrefix \in Prefixes, match \in Matches, L \in 1 .. MaxLimit :
            PageWithinLimit(keyPrefix, match, L) /\ PageRemainingIsLive(keyPrefix, match, L)


\* the last call was a single-key list of an existing object at a requested revision
SingleAsked == lists # <<>> /\ lists[1].obj # Nil /\ lists[1].rv # NoRV

\* C32: a non-recursive GetList of an existing object at revision rv with a
\* requested revision q holds the object iff rv >= q under NotOlderThan and iff
\* rv > q under Exact or unspecified; an unknown match mode is an error then; a
\* non-recursive GetList of an absent key gives an empty list (and, under a
\* known match mode, no error).
C32_SingleKeyMatchRule ==
    /\ SingleAsked =>
          LET c == lists[1]
          IN IF c.match \in Matches
             THEN /\ c.res.err = ""
                  /\ c.res.items # <<>> <=> MatchRule(c.match, c.obj.rev, c.rv)
             ELSE c.res.err # ""
    /\ lists # <<>> /\ lists[1].obj = Nil =>
          /\ lists[1].res.items = <<>>
          /\ lists[1].match \in Matches => lists[1].res.err = ""


\* the errors GuaranteedUpdate returns before it reserves a revision
EarlyErrors == {"KeyNotFound", "PreconditionFailed", "UpdateFailed"}

\* C33: a GuaranteedUpdate goes past its first step only for a key the key map
\* holds; a call that returns in its first step, with success (absent key,
\* ignoreNotFound) or with KeyNotFound, failed preconditions or a failed
\* mutator, leaves the key map, the revision list, the revision counter, the
\* watchers and the events unchanged; and a GuaranteedUpdate that has reserved
\* a revision returns none of these errors.
C33_FailedUpdateChangesNothing ==
    [][\A p \in Procs :
          /\ pc[p] = "idle" /\ pc'[p] = "idle" /\ loc'[p] # loc[p] => UNCHANGED shared
          /\ (\A q \in Procs : pc[q] = "idle") /\ pc' = pc => UNCHANGED shared
          /\ pc[p] = "idle" /\ pc'[p] = "reserve" /\ loc'[p].op = "GuaranteedUpdate" =>
                KvsGet(loc'[p].key) # Nil /\ UNCHANGED shared
          /\ loc[p].op = "GuaranteedUpdate" /\ pc[p] # "idle" /\ pc'[p] = "idle" =>
                loc'[p].err \notin EarlyErrors]_vars

\* a GuaranteedUpdate whose mutator failed has returned, another call found no key
C33_Witness ==
    \E p \in Procs, q \in Procs :
        /\ pc[p] = "idle" /\ loc[p].err = "UpdateFailed"
        /\ pc[q] = "idle" /\ loc[q].err = "KeyNotFound"


\* key k is in the key map and no create or delete of it is in flight
LiveThroughout(k) ==
    /\ KvsGet(k) # Nil
    /\ \A q \in Procs : pc[q] # "idle" /\ loc[q].key = k => loc[q].kind = "Updated"

\* the number of items of a list result that carry key k
TimesListed(res, k) == Cardinality({j \in 1 .. Len(res.items) : res.items[j].key = k})

\* C34: a recursive GetList without limit, continue token and resource version
\* returns every key under the prefix that is in the key map, and has no
\* create or delete in flight, exactly once, whatever update is in flight.
C34_ListSeesUpdatedKeyOnce ==
    [][lists' # lists =>
          LET c == lists'[Len(lists')]
          IN c.limit = 0 /\ c.cont = NoToken =>
                \A k \in Keys :
                    LiveThroughout(k) /\ HasPrefix(k, c.keyPrefix) =>
                        TimesListed(c.res, k) = 1]_vars


\* the events of kind Created or Deleted are lifecycle events; each has an opposite
Opposite(kind) == IF kind = "Created" THEN "Deleted" ELSE "Created"

\* an event of the opposite kind lies between events e and f of one key
OppositeBetween(e, f) ==
    \E g \in EventsOf(e.key) :
        g.kind = Opposite(e.kind) /\ e.rev < g.rev /\ g.rev < f.rev

\* caller p has broadcast the lifecycle event of its call and has not returned
HasBroadcast(p) == pc[p] = "sendLoop" /\ loc[p].kind \in {"Created", "Deleted"}

\* C35: once a create or a delete has broadcast its event, no create or delete
\* of the same key that took its revision later, while this one was running,
\* has broadcast an event of the same kind with no opposite event in between;
\* and with no mutation in progress, between two Created events or two Deleted
\* events of a key there is, in revision order, an event of the opposite kind.
C35_OneWinnerPerLifecycleStep ==
    /\ \A p \in Procs :
          HasBroadcast(p) =>
              \A f \in EventsOf(loc[p].key) :
                  f.kind = loc[p].kind /\ f.rev > loc[p].rev =>
                      OppositeBetween(ObjEvent(loc[p].key, loc[p].rev, loc[p].kind), f)
    /\ Quiescent =>
          \A k \in Keys : \A e \in EventsOf(k), f \in EventsOf(k) :
              e.kind = f.kind /\ e.kind # "Updated" /\ e.rev < f.rev =>
                  OppositeBetween(e, f)

====
